---- MODULE Spec2Model ----
(***************************************************************************)
(* Samplers and neighbour finders of models/core_sampling_and_search.py    *)
(* and the transform bookkeeping of src/datasets/base_dataset.py, as state *)
(* machines.  Points live on a line (one integer coordinate each); Python  *)
(* indices are 0-based and are kept 0-based in every result.               *)
(***************************************************************************)
EXTENDS Integers, Sequences, FiniteSets, TLC

VARIABLES
    sampler,    \* the BaseSampler object (cls = "none": not constructed)
    ctor,       \* the last sampler constructor call: arguments and outcome
    smp,        \* the last sampler.sample(pos, batch) call: inputs and result
    rng,        \* state of torch's global default generator
    seeded,     \* per caller: the seed it set and has not drawn from yet
    replay,     \* log of seeded RandomSampler.sample calls
    finder,     \* the DilatedKNNNeighbourFinder object
    nbr,        \* the last DilatedKNNNeighbourFinder.find_neighbours call
    ms,         \* the MultiscaleRadiusNeighbourFinder object
    msctor,     \* its constructor call: arguments and outcome
    mscall,     \* the last MultiscaleRadiusNeighbourFinder.find_neighbours call
    default_out,    \* the list object that is add_transform's default for 'out'
    datasets,       \* per dataset object: the transforms set_transform gave it
    last_add,       \* the last direct BaseDataset.add_transform(transforms) call
    stage,          \* a BaseDataset object's datasets, loaders and test dataset names
    stage_reads     \* log of the reads of available_stage_names

vars == <<sampler, ctor, smp, rng, seeded, replay, finder, nbr, ms, msctor, mscall,
          default_out, datasets, last_add, stage, stage_reads>>

samplerVars == <<sampler, ctor, smp>>
seedVars == <<seeded, replay>>
knnVars == <<finder, nbr>>
msVars == <<ms, msctor, mscall>>
dsVars == <<default_out, datasets, last_add>>
stageVars == <<stage, stage_reads>>

----------------------------------------------------------------------------
(* Bounds of the model *)

MaxN == 3          \* points in a sampled cloud
MaxDen == 3        \* ratios are p/q with 1 <= p <= q <= MaxDen
RngMod == 8        \* number of generator states
MaxLog == 2        \* seeded sample calls kept in the replay log
MaxRef == 3        \* reference points x of a neighbour search
MaxQry == 2        \* query points y of a neighbour search
MaxK == 2          \* k of a DilatedKNNNeighbourFinder
MaxDil == 2        \* dilation of a DilatedKNNNeighbourFinder
MaxScales == 2     \* length of a radius or max_num_neighbors list
MaxMsRef == 2      \* reference points x of a multi-scale search
MaxChain == 1      \* transforms in one pre_transform or test_transform
MaxOut == 3        \* transforms held by one list object
MaxTests == 2      \* test datasets of one BaseDataset
MaxReads == 3      \* reads of available_stage_names kept in the log

Coords == {0, 2}   \* coordinates of the points

----------------------------------------------------------------------------
(* Python values *)

\* an optional value: Python's None, or a value.  None carries a value of
\* the attribute's type that is never read.
Opt(is_some, v) == [some |-> is_some, val |-> v]
Some(v) == Opt(TRUE, v)
None == Opt(FALSE, 0)                   \* no integer
NoRatio == Opt(FALSE, [p |-> 0, q |-> 1])   \* no ratio
NoCompose == Opt(FALSE, <<>>)           \* no Compose
NoRef == Opt(FALSE, "")                 \* no reference to a list object

Abs(a) == IF a < 0 THEN -a ELSE a
Min2(a, b) == IF a <= b THEN a ELSE b
Inf == 1000

\* a float ratio, kept exact as p/q
Frac(a, b) == [p |-> a, q |-> b]

Ratios == {Frac(a, b) : a \in 1 .. MaxDen, b \in 1 .. MaxDen} \cap
          {f \in [p : 1 .. MaxDen, q : 1 .. MaxDen] :
              f.p <= f.q /\ \A c \in 2 .. MaxDen : ~(f.p % c = 0 /\ f.q % c = 0)}

Floor(n, f) == (n * f.p) \div f.q
Ceil(n, f) == (n * f.p + f.q - 1) \div f.q

\* batch vectors: one id per point, starting at 0, non-decreasing, contiguous
BatchVectors(n) ==
    {b \in [1 .. n -> 0 .. n - 1] :
        /\ n > 0 => b[1] = 0
        /\ \A i \in 1 .. n - 1 : b[i + 1] \in {b[i], b[i] + 1}}

Clouds(n) == [1 .. n -> Coords]

NumBatches(batch) == IF Len(batch) = 0 THEN 0 ELSE batch[Len(batch)] + 1
Seg(batch, b) == {i \in 1 .. Len(batch) : batch[i] = b}

RECURSIVE Concat(_, _, _)
\* f[lo] \o f[lo+1] \o ... \o f[hi]
Concat(f, lo, hi) == IF lo > hi THEN <<>> ELSE f[lo] \o Concat(f, lo + 1, hi)

----------------------------------------------------------------------------
(* torch's global generator: torch.randint(low=0, high, size) draws size    *)
(* values from one shared stream.                                           *)

RngNext(g) == (5 * g + 3) % RngMod
RngValue(g, high) == (g * high) \div RngMod

RECURSIVE RngAfter(_, _)
RngAfter(g, n) == IF n = 0 THEN g ELSE RngAfter(RngNext(g), n - 1)

\* the n values torch.randint(0, high, (n,)) returns from generator state g
randint(g, high, n) == [i \in 1 .. n |-> RngValue(RngAfter(g, i), high)]

----------------------------------------------------------------------------
(* BaseSampler *)

NoSampler == [cls |-> "none", has_ratio |-> FALSE, ratio |-> NoRatio,
              has_num |-> FALSE, num |-> 0]

\* __init__ that lets num_to_sample win when ratio is given too
BaseSampler_init_unchecked(cls, ratio, num_to_sample) ==
    IF num_to_sample.some
    THEN [raised |-> "none",
          obj |-> [cls |-> cls, has_ratio |-> FALSE, ratio |-> NoRatio,
                   has_num |-> TRUE, num |-> num_to_sample.val]]
    ELSE [raised |-> "none",
          obj |-> [cls |-> cls, has_ratio |-> TRUE, ratio |-> ratio,
                   has_num |-> FALSE, num |-> 0]]

\* BaseSampler.__init__: the attributes it sets, or the error it raises
BaseSampler_init(cls, ratio, num_to_sample) ==
    IF num_to_sample.some
    THEN IF ratio.some
         THEN [raised |-> "ValueError", obj |-> NoSampler]
         ELSE [raised |-> "none",
               obj |-> [cls |-> cls, has_ratio |-> FALSE, ratio |-> NoRatio,
                        has_num |-> TRUE, num |-> num_to_sample.val]]
    ELSE [raised |-> "none",
          obj |-> [cls |-> cls, has_ratio |-> TRUE, ratio |-> ratio,
                   has_num |-> FALSE, num |-> 0]]

\* BaseSampler._get_num_to_sample (self._ratio is not None here)
get_num_to_sample(self, n) ==
    IF self.has_num THEN self.num ELSE Floor(n, self.ratio.val)

\* BaseSampler._get_ratio_to_sample
get_ratio_to_sample(self, n) ==
    IF self.has_ratio THEN self.ratio ELSE Some(Frac(self.num, n))

----------------------------------------------------------------------------
(* fps of torch_geometric.nn, as FPSSampler.sample calls it: one greedy     *)
(* farthest-point loop per batch element, which takes ceil(ratio * deg)     *)
(* points of the element's deg points.                                      *)

ArgMax(dist, seg) ==
    CHOOSE i \in seg : \A j \in seg : dist[j] < dist[i] \/ (dist[j] = dist[i] /\ i <= j)

RECURSIVE fps_greedy(_, _, _, _, _)
fps_greedy(pos, seg, dist, cur, todo) ==
    IF todo = 0 THEN <<>>
    ELSE LET d2 == [j \in seg |-> Min2(dist[j], Abs(pos[j] - pos[cur]))]
             nxt == ArgMax(d2, seg)
         IN  <<nxt - 1>> \o fps_greedy(pos, seg, d2, nxt, todo - 1)

fps_count(deg, ratio) == Ceil(deg, ratio)

fps_segment(pos, seg, start, ratio) ==
    LET m == fps_count(Cardinality(seg), ratio)
    IN  IF m = 0 THEN <<>>
        ELSE <<start - 1>> \o fps_greedy(pos, seg, [j \in seg |-> Inf], start, m - 1)

\* start[b + 1] is the first point taken in batch element b
fps(pos, batch, ratio, start) ==
    Concat([b \in 1 .. NumBatches(batch) |->
               fps_segment(pos, Seg(batch, b - 1), start[b], ratio)],
           1, NumBatches(batch))

FpsStarts(batch) ==
    {s \in [1 .. NumBatches(batch) -> 1 .. Len(batch)] :
        \A b \in 1 .. NumBatches(batch) : s[b] \in Seg(batch, b - 1)}

----------------------------------------------------------------------------
(* Sampler actions *)

NoCtor == [cls |-> "none", ratio |-> NoRatio, num_to_sample |-> None, raised |-> "none"]
NoSample == [pos |-> <<>>, batch |-> <<>>, outcome |-> "none", out |-> <<>>]

SamplerClasses == {"FPSSampler", "RandomSampler"}
RatioArgs == {NoRatio} \cup {Some(f) : f \in Ratios}
NumArgs == {None} \cup {Some(c) : c \in 0 .. MaxN}

\* cls(ratio=..., num_to_sample=...)
NewSampler(cls, ratio, num_to_sample) ==
    /\ LET r == BaseSampler_init(cls, ratio, num_to_sample)
       IN  /\ sampler' = r.obj
           /\ ctor' = [cls |-> cls, ratio |-> ratio, num_to_sample |-> num_to_sample,
                       raised |-> r.raised]
    /\ UNCHANGED <<smp, rng, seedVars, knnVars, msVars, dsVars, stageVars>>

\* FPSSampler.sample(pos, batch)
FPSSampler_sample(pos, batch) ==
    /\ sampler.cls = "FPSSampler"
    /\ LET ratio == get_ratio_to_sample(sampler, Len(pos))
       IN  IF ~ratio.some
           THEN smp' = [pos |-> pos, batch |-> batch, outcome |-> "TypeError", out |-> <<>>]
           ELSE \E start \in FpsStarts(batch) :
                   smp' = [pos |-> pos, batch |-> batch, outcome |-> "ok",
                           out |-> fps(pos, batch, ratio.val, start)]
    /\ UNCHANGED <<sampler, ctor, rng, seedVars, knnVars, msVars, dsVars, stageVars>>

\* the result of RandomSampler.sample(pos, batch) from generator state g
RandomSampler_draw(self, pos, g) ==
    IF self.has_ratio /\ ~self.ratio.some
    THEN [outcome |-> "TypeError", out |-> <<>>, rng |-> g]
    ELSE LET n == get_num_to_sample(self, Len(pos))
         IN  [outcome |-> "ok", out |-> randint(g, Len(pos), n), rng |-> RngAfter(g, n)]

\* RandomSampler.sample(pos, batch), by a caller that set no seed
RandomSampler_sample(pos, batch) ==
    /\ sampler.cls = "RandomSampler"
    /\ LET r == RandomSampler_draw(sampler, pos, rng)
       IN  /\ smp' = [pos |-> pos, batch |-> batch, outcome |-> r.outcome, out |-> r.out]
           /\ rng' = r.rng
    /\ UNCHANGED <<sampler, ctor, seedVars, knnVars, msVars, dsVars, stageVars>>


----------------------------------------------------------------------------
(* radius of torch_geometric.nn: for each query y[j], the points of x in    *)
(* the same batch element within distance r, at most max_num_neighbors of   *)
(* them.  A pair is (row, col) = (index in y, index in x).                  *)

RECURSIVE FirstOf(_, _)
\* the cap lowest members of a set of indices, in order
FirstOf(set, cap) ==
    IF cap = 0 \/ set = {} THEN <<>>
    ELSE LET lo == CHOOSE i \in set : \A j \in set : i <= j
         IN  <<lo>> \o FirstOf(set \ {lo}, cap - 1)

radius(x, y, r, batch_x, batch_y, max_num_neighbors) ==
    Concat([j \in 1 .. Len(y) |->
               LET within == {i \in Seg(batch_x, batch_y[j]) : Abs(x[i] - y[j]) <= r}
                   kept == FirstOf(within, max_num_neighbors)
               IN  [p \in 1 .. Len(kept) |-> [row |-> j - 1, col |-> kept[p] - 1]]],
           1, Len(y))

\* RadiusNeighbourFinder.__init__
RadiusNeighbourFinder_init(r, max_num_neighbors) ==
    [_radius |-> r, _max_num_neighbors |-> max_num_neighbors]

\* RadiusNeighbourFinder.find_neighbours
RadiusNeighbourFinder_find(self, x, y, batch_x, batch_y) ==
    radius(x, y, self._radius, batch_x, batch_y, self._max_num_neighbors)

----------------------------------------------------------------------------
(* MultiscaleRadiusNeighbourFinder.  A constructor argument is a scalar or *)
(* a list: [is_list, val], the scalar v held as <<v>>.                      *)

DefaultMaxNumNeighbors == 64

Scalar(v) == [is_list |-> FALSE, val |-> <<v>>]
List(l) == [is_list |-> TRUE, val |-> l]

NoMs == [cls |-> "none", _radius |-> <<>>, _max_num_neighbors |-> <<>>]
NoMsCtor == [called |-> FALSE, radius |-> List(<<>>), max_num_neighbors |-> List(<<>>),
             raised |-> "none"]
NoMsCall == [x |-> <<>>, y |-> <<>>, batch_x |-> <<>>, batch_y |-> <<>>, scale_idx |-> 0,
             outcome |-> "none", searched |-> FALSE, pairs |-> <<>>]

MsObject(radius_list, max_list) ==
    [raised |-> "none",
     obj |-> [cls |-> "MultiscaleRadiusNeighbourFinder",
              _radius |-> radius_list, _max_num_neighbors |-> max_list]]

\* __init__ without the length check of the two lists
Multiscale_init_no_length_check(radius_arg, max_num_neighbors) ==
    IF ~max_num_neighbors.is_list /\ radius_arg.is_list
    THEN MsObject(radius_arg.val,
                  [i \in 1 .. Len(radius_arg.val) |-> max_num_neighbors.val[1]])
    ELSE IF ~radius_arg.is_list /\ max_num_neighbors.is_list
    THEN MsObject([i \in 1 .. Len(max_num_neighbors.val) |-> radius_arg.val[1]],
                  max_num_neighbors.val)
    ELSE IF max_num_neighbors.is_list
    THEN MsObject(radius_arg.val, max_num_neighbors.val)
    ELSE MsObject(<<radius_arg.val[1]>>, <<max_num_neighbors.val[1]>>)

\* MultiscaleRadiusNeighbourFinder.__init__
Multiscale_init(radius_arg, max_num_neighbors) ==
    IF ~max_num_neighbors.is_list /\ radius_arg.is_list
    THEN MsObject(radius_arg.val,
                  [i \in 1 .. Len(radius_arg.val) |-> max_num_neighbors.val[1]])
    ELSE IF ~radius_arg.is_list /\ max_num_neighbors.is_list
    THEN MsObject([i \in 1 .. Len(max_num_neighbors.val) |-> radius_arg.val[1]],
                  max_num_neighbors.val)
    ELSE IF max_num_neighbors.is_list
    THEN IF Len(max_num_neighbors.val) # Len(radius_arg.val)
         THEN [raised |-> "ValueError", obj |-> NoMs]
         ELSE MsObject(radius_arg.val, max_num_neighbors.val)
    ELSE MsObject(<<radius_arg.val[1]>>, <<max_num_neighbors.val[1]>>)

\* MultiscaleRadiusNeighbourFinder.num_scales
num_scales(self) == Len(self._radius)

\* Python's list[i]: a negative i counts from the end
PyInRange(list, i) == -Len(list) <= i /\ i < Len(list)
PyItem(list, i) == IF i >= 0 THEN list[i + 1] ELSE list[Len(list) + i + 1]

\* find_neighbours that always searches at the first scale
Multiscale_find_first_scale(self, x, y, batch_x, batch_y, scale_idx) ==
    IF scale_idx >= num_scales(self)
    THEN [outcome |-> "ValueError", searched |-> FALSE, pairs |-> <<>>]
    ELSE IF ~PyInRange(self._radius, scale_idx)
    THEN [outcome |-> "IndexError", searched |-> FALSE, pairs |-> <<>>]
    ELSE [outcome |-> "ok", searched |-> TRUE,
          pairs |-> radius(x, y, PyItem(self._radius, 0), batch_x, batch_y,
                           PyItem(self._max_num_neighbors, 0))]

\* MultiscaleRadiusNeighbourFinder.find_neighbours: what it raises or returns
Multiscale_find(self, x, y, batch_x, batch_y, scale_idx) ==
    IF scale_idx >= num_scales(self)
    THEN [outcome |-> "ValueError", searched |-> FALSE, pairs |-> <<>>]
    ELSE IF ~PyInRange(self._radius, scale_idx)
    THEN [outcome |-> "IndexError", searched |-> FALSE, pairs |-> <<>>]
    ELSE [outcome |-> "ok", searched |-> TRUE,
          pairs |-> radius(x, y, PyItem(self._radius, scale_idx), batch_x, batch_y,
                           PyItem(self._max_num_neighbors, scale_idx))]

NewMultiscale(radius_arg, max_num_neighbors) ==
    /\ LET r == Multiscale_init(radius_arg, max_num_neighbors)
       IN  /\ ms' = r.obj
           /\ msctor' = [called |-> TRUE, radius |-> radius_arg,
                         max_num_neighbors |-> max_num_neighbors, raised |-> r.raised]
    /\ UNCHANGED <<mscall, rng, samplerVars, seedVars, knnVars, dsVars, stageVars>>

Multiscale_find_neighbours(x, y, batch_x, batch_y, scale_idx) ==
    /\ ms.cls = "MultiscaleRadiusNeighbourFinder"
    /\ LET r == Multiscale_find(ms, x, y, batch_x, batch_y, scale_idx)
       IN  mscall' = [x |-> x, y |-> y, batch_x |-> batch_x, batch_y |-> batch_y,
                      scale_idx |-> scale_idx, outcome |-> r.outcome,
                      searched |-> r.searched, pairs |-> r.pairs]
    /\ UNCHANGED <<ms, msctor, rng, samplerVars, seedVars, knnVars, dsVars, stageVars>>

----------------------------------------------------------------------------
(* knn of torch_geometric.nn: for each query y[j], in the order of the      *)
(* queries, its k nearest points of x in the same batch element, or all of  *)
(* them when there are fewer than k.  A pair is (row, col) = (index of the  *)
(* query in y, index of the reference in x).                                *)

Closest(x, cands, c) ==
    CHOOSE i \in cands : \A j \in cands :
        \/ Abs(x[i] - c) < Abs(x[j] - c)
        \/ Abs(x[i] - c) = Abs(x[j] - c) /\ i <= j

RECURSIVE Nearest(_, _, _, _)
Nearest(x, cands, c, todo) ==
    IF todo = 0 \/ cands = {} THEN <<>>
    ELSE LET best == Closest(x, cands, c)
         IN  <<best>> \o Nearest(x, cands \ {best}, c, todo - 1)

knn(x, y, k, batch_x, batch_y) ==
    Concat([j \in 1 .. Len(y) |->
               LET near == Nearest(x, Seg(batch_x, batch_y[j]), y[j], k)
               IN  [p \in 1 .. Len(near) |-> [row |-> j - 1, col |-> near[p] - 1]]],
           1, Len(y))

\* KNNNeighbourFinder(k).find_neighbours
KNNNeighbourFinder_find(k, x, y, batch_x, batch_y) == knn(x, y, k, batch_x, batch_y)

----------------------------------------------------------------------------
(* DilatedKNNNeighbourFinder *)

NoFinder == [cls |-> "none", k |-> 0, dilation |-> 0, initialFinder_k |-> 0]
NoFind == [x |-> <<>>, y |-> <<>>, batch_x |-> <<>>, batch_y |-> <<>>,
           outcome |-> "none", pairs |-> <<>>]

\* DilatedKNNNeighbourFinder.__init__
DilatedKNN_init(k, dilation) ==
    [cls |-> "DilatedKNNNeighbourFinder", k |-> k, dilation |-> dilation,
     initialFinder_k |-> k * dilation]

NewDilatedKNN(k, dilation) ==
    /\ finder' = DilatedKNN_init(k, dilation)
    /\ UNCHANGED <<nbr, rng, samplerVars, seedVars, msVars, dsVars, stageVars>>

\* arange * k: the block offset of query j with the dilation forgotten
DilatedKNN_offset_no_dilation(self, j) == j * self.k

\* arange = torch.arange(len(y)) * (self.k * self.dilation), at query j
DilatedKNN_offset(self, j) == j * (self.k * self.dilation)

\* index = (torch.randint(k * dilation, (len(y), k)) + arange.view(-1, 1)).view(-1):
\* entry s (1-based) of the flattened index, 0-based into row and col
DilatedKNN_index(self, g, m) ==
    LET draw == randint(g, self.k * self.dilation, m * self.k)
    IN  [s \in 1 .. m * self.k |-> draw[s] + DilatedKNN_offset(self, (s - 1) \div self.k)]

\* the result of find_neighbours from generator state g: row[index], col[index]
DilatedKNN_gather(self, x, y, batch_x, batch_y, g) ==
    LET cand == KNNNeighbourFinder_find(self.initialFinder_k, x, y, batch_x, batch_y)
        index == DilatedKNN_index(self, g, Len(y))
    IN  IF \E s \in DOMAIN index : index[s] >= Len(cand)
        THEN [outcome |-> "IndexError", pairs |-> <<>>]
        ELSE [outcome |-> "ok", pairs |-> [s \in DOMAIN index |-> cand[index[s] + 1]]]

\* DilatedKNNNeighbourFinder.find_neighbours(x, y, batch_x, batch_y)
DilatedKNN_find(x, y, batch_x, batch_y) ==
    /\ finder.cls = "DilatedKNNNeighbourFinder"
    /\ LET r == DilatedKNN_gather(finder, x, y, batch_x, batch_y, rng)
       IN  nbr' = [x |-> x, y |-> y, batch_x |-> batch_x, batch_y |-> batch_y,
                   outcome |-> r.outcome, pairs |-> r.pairs]
    /\ rng' = RngAfter(rng, Len(y) * finder.k)
    /\ UNCHANGED <<finder, samplerVars, seedVars, msVars, dsVars, stageVars>>

----------------------------------------------------------------------------
(* Seeded replay.  The code takes no seed or generator argument: the only   *)
(* seed a caller can fix is the global one, torch.manual_seed(seed), which  *)
(* every torch.randint of the process then draws from.  Two callers share   *)
(* one RandomSampler and one DilatedKNNNeighbourFinder.                     *)

Callers == {"A", "B"}
Seeds == {1, 2}

\* torch.manual_seed(seed) by caller c
torch_manual_seed(c, seed) ==
    /\ rng' = seed % RngMod
    /\ seeded' = [seeded EXCEPT ![c] = Some(seed)]
    /\ UNCHANGED <<replay, samplerVars, knnVars, msVars, dsVars, stageVars>>

\* RandomSampler.sample(pos, batch) by caller c, who has set its seed
RandomSampler_sample_seeded(c, pos, batch) ==
    /\ sampler.cls = "RandomSampler"
    /\ seeded[c].some
    /\ Len(replay) < MaxLog
    /\ LET r == RandomSampler_draw(sampler, pos, rng)
       IN  /\ smp' = [pos |-> pos, batch |-> batch, outcome |-> r.outcome, out |-> r.out]
           /\ rng' = r.rng
           /\ replay' = Append(replay, [seed |-> seeded[c].val, pos |-> pos,
                                         batch |-> batch, out |-> r.out])
    /\ seeded' = [seeded EXCEPT ![c] = None]
    /\ UNCHANGED <<sampler, ctor, knnVars, msVars, dsVars, stageVars>>

----------------------------------------------------------------------------
(* BaseDataset: add_transform and set_transform.  A transform is a name; a  *)
(* Compose holds a reference to the list it was built from.  Python makes   *)
(* the default of 'out' one list object when add_transform is defined, and  *)
(* 'out += ...' extends a list in place.  dataset_opt is reduced to the     *)
(* two keys set_transform reads back: each absent (or failing to            *)
(* instantiate, which leaves the attribute None) or a Compose.              *)

Transforms == {"T1", "T2"}
Composes == UNION {[1 .. n -> Transforms] : n \in 1 .. MaxChain}
TransformOpts == {NoCompose} \cup {Some(l) : l \in Composes}


\* BaseDataset.add_transform: the contents of 'out' when it returns
add_transform(transform_list_to_be_added, out) ==
    IF transform_list_to_be_added.some
    THEN out \o transform_list_to_be_added.val
    ELSE out

\* BaseDataset.set_transform(obj, dataset_opt)
set_transform(obj, pre_transform, test_transform) ==
    LET \* inference_transform = BaseDataset.add_transform(obj.pre_transform)
        first == add_transform(pre_transform, default_out)
        \* ... = BaseDataset.add_transform(obj.test_transform, out=inference_transform)
        second == add_transform(test_transform, first)
    IN  /\ Len(second) <= MaxOut
        /\ default_out' = second
        /\ datasets' = [datasets EXCEPT ![obj] =
               [is_set |-> TRUE, pre_transform |-> pre_transform,
                test_transform |-> test_transform,
                inference_transform |->
                    IF Len(second) > 0 THEN Some("default_out") ELSE NoRef]]
        /\ UNCHANGED <<last_add, rng, samplerVars, seedVars, knnVars, msVars, stageVars>>

\* BaseDataset.add_transform(transforms), called directly with no 'out'
add_transform_call(transform_list_to_be_added) ==
    LET out == add_transform(transform_list_to_be_added, default_out)
    IN  /\ Len(out) <= MaxOut
        /\ default_out' = out
        /\ last_add' = [called |-> TRUE,
                        added |-> IF transform_list_to_be_added.some
                                  THEN transform_list_to_be_added.val ELSE <<>>,
                        returned |-> out]
        /\ UNCHANGED <<datasets, rng, samplerVars, seedVars, knnVars, msVars, stageVars>>

\* obj.inference_transform.transforms now, or <<>> when it is None
InferenceTransforms(obj) ==
    IF datasets[obj].inference_transform.some THEN default_out ELSE <<>>

----------------------------------------------------------------------------
(* BaseDataset: loaders and stage names                                    *)
(* A test dataset is reduced to its dataset_name attribute (absent or a    *)
(* name); test_dataset is the list create_dataloaders iterates over, a     *)
(* single dataset being the one-element list it is wrapped into and <<>>   *)
(* standing for None.  _test_loaders holds one loader per test dataset, in *)
(* order, so a loader's dataset is the list's entry at the same index.     *)
(* _test_dataset_names is one list object: an attribute read returns a     *)
(* reference to it, and 'out += ...' extends that object in place.         *)

NoName == Opt(FALSE, "")                \* no dataset_name attribute
DatasetNames == {"scene"}
TestDatasets == {NoName} \cup {Some(n) : n \in DatasetNames}
TestDatasetLists == UNION {[1 .. n -> TestDatasets] : n \in 0 .. MaxTests}

\* "test_{}".format(index)
Format == <<"test_0", "test_1", "test_2", "test_3">>

\* the object after __init__ and the subclass's assignment of its datasets
NewStage(test_dataset, val_dataset) ==
    [test_dataset |-> test_dataset, val_dataset |-> val_dataset,
     created |-> FALSE,
     has_test_loaders |-> FALSE,        \* hasattr(self, "_test_loaders")
     has_val_loader |-> FALSE,          \* hasattr(self, "_val_loader")
     has_names |-> FALSE,               \* hasattr(self, "_test_dataset_names")
     names |-> <<>>,                    \* contents of self._test_dataset_names
     contains_dataset_name |-> FALSE]

\* BaseDataset.num_test_datasets
num_test_datasets(self) == Len(self.test_dataset)

\* BaseDataset.get_test_dataset_name(index): the name it returns
get_test_dataset_name(self, index) ==
    IF self.test_dataset[index + 1].some
    THEN self.test_dataset[index + 1].val
    ELSE IF num_test_datasets(self) > 1 THEN Format[index + 1] ELSE "test"

\* [self.get_test_dataset_name(idx) for idx in range(self.num_test_datasets)]
TestDatasetNames(self) ==
    [i \in 1 .. num_test_datasets(self) |-> get_test_dataset_name(self, i - 1)]

\* BaseDataset.create_dataloaders: the loaders and names it stores
create_dataloaders ==
    LET has_test == Len(stage.test_dataset) > 0
    IN  /\ stage' = [stage EXCEPT
               !.created = TRUE,
               !.has_test_loaders = has_test,
               !.has_names = has_test,
               !.names = IF has_test THEN TestDatasetNames(stage) ELSE <<>>,
               !.contains_dataset_name =
                   has_test /\ \E i \in 1 .. Len(stage.test_dataset) :
                                   stage.test_dataset[i].some,
               !.has_val_loader = stage.val_dataset]
        /\ UNCHANGED <<stage_reads, rng, samplerVars, seedVars, knnVars, msVars, dsVars>>

\* BaseDataset.has_val_loader (True, or None when the attribute is missing)
has_val_loader(self) == self.has_val_loader

\* BaseDataset.available_stage_names: the outcome of one read, and the
\* contents of the list 'out' refers to (self._test_dataset_names) after it
available_stage_names(self) ==
    IF ~self.has_names
    THEN [outcome |-> "AttributeError", out |-> <<>>]
    ELSE [outcome |-> "ok",
          out |-> IF has_val_loader(self)
                  THEN self.names \o <<"val">>
                  ELSE self.names]

\* a read of the property: dataset.available_stage_names
read_available_stage_names ==
    LET r == available_stage_names(stage)
    IN  /\ stage' = IF r.outcome = "ok" THEN [stage EXCEPT !.names = r.out] ELSE stage
        /\ stage_reads' = Append(stage_reads,
               [via |-> "available_stage_names", outcome |-> r.outcome,
                returned |-> r.out, selection_stage |-> ""])
        /\ UNCHANGED <<rng, samplerVars, seedVars, knnVars, msVars, dsVars>>

SelectionStages == {"", "val", "test"}

\* BaseDataset.resolve_saving_stage(selection_stage)
resolve_saving_stage(selection_stage) ==
    LET r == available_stage_names(stage)
        selected == IF selection_stage = ""
                    THEN IF has_val_loader(stage) THEN "val"
                         ELSE get_test_dataset_name(stage, 0)
                    ELSE selection_stage
    IN  /\ stage' = IF r.outcome = "ok" THEN [stage EXCEPT !.names = r.out] ELSE stage
        /\ stage_reads' = Append(stage_reads,
               [via |-> "resolve_saving_stage", outcome |-> r.outcome,
                returned |-> r.out,
                selection_stage |-> IF r.outcome = "ok" THEN selected ELSE ""])
        /\ UNCHANGED <<rng, samplerVars, seedVars, knnVars, msVars, dsVars>>

----------------------------------------------------------------------------
(* The states before anything is constructed or called *)

DatasetObjects == {"d1", "d2"}
NoSeeds == [c \in {"A", "B"} |-> None]
NoDataset == [is_set |-> FALSE, pre_transform |-> NoCompose, test_transform |-> NoCompose,
              inference_transform |-> NoRef]
NoDatasets == [o \in DatasetObjects |-> NoDataset]
NoAdd == [called |-> FALSE, added |-> <<>>, returned |-> <<>>]

SamplerIdle == sampler = NoSampler /\ ctor = NoCtor /\ smp = NoSample
SeedIdle == seeded = NoSeeds /\ replay = <<>>
KnnIdle == finder = NoFinder /\ nbr = NoFind
MsIdle == ms = NoMs /\ msctor = NoMsCtor /\ mscall = NoMsCall
DatasetIdle == default_out = <<>> /\ datasets = NoDatasets /\ last_add = NoAdd
StageIdle == stage = NewStage(<<>>, FALSE) /\ stage_reads = <<>>

----------------------------------------------------------------------------
(* Specifications: one per component, the others left idle.  Samplers and  *)
(* finders keep no state between calls except the shared generator, whose  *)
(* state Init leaves arbitrary: SpecSampler, SpecKnn and SpecMs construct   *)
(* one object and follow one call on it.                                    *)

PointSets(maxlen) ==
    UNION {{<<pos, batch>> : pos \in Clouds(n), batch \in BatchVectors(n)} : n \in 1 .. maxlen}

InitKnn ==
    /\ rng \in 0 .. RngMod - 1
    /\ SamplerIdle /\ SeedIdle /\ KnnIdle /\ MsIdle /\ DatasetIdle /\ StageIdle

NextKnn ==
    \/ /\ finder.cls = "none"
       /\ \E k \in 1 .. MaxK, dilation \in 1 .. MaxDil : NewDilatedKNN(k, dilation)
    \/ /\ nbr.outcome = "none"
       /\ \E xs \in PointSets(MaxRef), ys \in PointSets(MaxQry) :
             DilatedKNN_find(xs[1], ys[1], xs[2], ys[2])

SpecKnn == InitKnn /\ [][NextKnn]_vars

----------------------------------------------------------------------------
(* The samplers: one construction, then one sample call *)

SamplerInputs ==
    UNION {{<<pos, batch>> : pos \in Clouds(n), batch \in BatchVectors(n)} : n \in 1 .. MaxN}

InitSampler ==
    /\ rng \in 0 .. RngMod - 1
    /\ SamplerIdle /\ SeedIdle /\ KnnIdle /\ MsIdle /\ DatasetIdle /\ StageIdle

NextSampler ==
    \/ /\ sampler.cls = "none"
       /\ \E cls \in SamplerClasses, ratio \in RatioArgs, num \in NumArgs :
             NewSampler(cls, ratio, num)
    \/ /\ smp.outcome = "none"
       /\ \E inp \in SamplerInputs : FPSSampler_sample(inp[1], inp[2])
    \/ /\ smp.outcome = "none"
       /\ \E inp \in SamplerInputs : RandomSampler_sample(inp[1], inp[2])

SpecSampler == InitSampler /\ [][NextSampler]_vars

----------------------------------------------------------------------------
(* The multi-scale finder: one construction, then one search *)

Radii == {1, 3}
Caps == {1, DefaultMaxNumNeighbors}

ListsOf(S) == UNION {[1 .. n -> S] : n \in 0 .. MaxScales}
RadiusArgs == {Scalar(v) : v \in Radii} \cup {List(l) : l \in ListsOf(Radii)}
MaxNeighborsArgs == {Scalar(v) : v \in Caps} \cup {List(l) : l \in ListsOf(Caps)}
ScaleIndices == -(MaxScales + 1) .. MaxScales + 1
MsQueries == {<<pos, <<b>>>> : pos \in Clouds(1), b \in {0, 1}}

InitMs ==
    /\ rng = 0
    /\ SamplerIdle /\ SeedIdle /\ KnnIdle /\ MsIdle /\ DatasetIdle /\ StageIdle

NextMs ==
    \/ /\ ms.cls = "none"
       /\ \E r \in RadiusArgs, m \in MaxNeighborsArgs : NewMultiscale(r, m)
    \/ /\ mscall.outcome = "none"
       /\ \E xs \in PointSets(MaxMsRef), ys \in MsQueries, i \in ScaleIndices :
             Multiscale_find_neighbours(xs[1], ys[1], xs[2], ys[2], i)

SpecMs == InitMs /\ [][NextMs]_vars

----------------------------------------------------------------------------
(* Seeded replay *)

\* single-batch clouds at the origin: RandomSampler reads only their size
SeededInputs == {<<[i \in 1 .. n |-> 0], [i \in 1 .. n |-> 0]>> : n \in 2 .. MaxN}
SeededSamplers == {BaseSampler_init("RandomSampler", NoRatio, Some(c)) : c \in 1 .. 2}
SeededFinders == {DilatedKNN_init(1, d) : d \in 1 .. MaxDil}

InitSeeded ==
    /\ \E s \in SeededSamplers :
          /\ sampler = s.obj
          /\ ctor = [cls |-> "RandomSampler", ratio |-> NoRatio,
                     num_to_sample |-> Some(s.obj.num), raised |-> "none"]
    /\ smp = NoSample
    /\ rng \in 0 .. RngMod - 1
    /\ finder \in SeededFinders
    /\ nbr = NoFind
    /\ SeedIdle /\ MsIdle /\ DatasetIdle /\ StageIdle

NextSeeded ==
    \/ \E c \in Callers, seed \in Seeds : torch_manual_seed(c, seed)
    \/ \E c \in Callers, inp \in SeededInputs : RandomSampler_sample_seeded(c, inp[1], inp[2])
    \/ /\ smp.outcome = "none"
       /\ \E inp \in SeededInputs : RandomSampler_sample(inp[1], inp[2])
    \/ /\ nbr.outcome = "none"
       /\ \E ys \in PointSets(1) : DilatedKNN_find(<<0, 0>>, ys[1], <<0, 0>>, ys[2])

SpecSeeded == InitSeeded /\ [][NextSeeded]_vars

----------------------------------------------------------------------------
(* The datasets' transforms *)

InitDataset ==
    /\ rng = 0
    /\ SamplerIdle /\ SeedIdle /\ KnnIdle /\ MsIdle /\ DatasetIdle /\ StageIdle

NextDataset ==
    \/ \E obj \in DatasetObjects, pre \in TransformOpts, test \in TransformOpts :
          set_transform(obj, pre, test)
    \/ \E t \in TransformOpts : add_transform_call(t)

SpecDataset == InitDataset /\ [][NextDataset]_vars

----------------------------------------------------------------------------
(* One dataset's loaders and stage names: the datasets are whatever the    *)
(* subclass assigned, create_dataloaders completes the setup once, and the *)
(* stage names are read any number of times (up to the log's length).      *)

InitStages ==
    /\ rng = 0
    /\ SamplerIdle /\ SeedIdle /\ KnnIdle /\ MsIdle /\ DatasetIdle
    /\ \E tests \in TestDatasetLists, val \in BOOLEAN : stage = NewStage(tests, val)
    /\ stage_reads = <<>>

NextStages ==
    \/ /\ ~stage.created
       /\ create_dataloaders
    \/ /\ Len(stage_reads) < MaxReads
       /\ read_available_stage_names
    \/ /\ Len(stage_reads) < MaxReads
       /\ \E selection_stage \in SelectionStages : resolve_saving_stage(selection_stage)

SpecStages == InitStages /\ [][NextStages]_vars

----------------------------------------------------------------------------
(* Claims about the samplers (SpecSampler) *)

RatioOnly == sampler.cls # "none" /\ sampler.has_ratio /\ sampler.ratio.some
CountOnly == sampler.cls # "none" /\ sampler.has_num
Sampled == smp.outcome # "none"
InRange(out, n) == \A i \in DOMAIN out : out[i] \in 0 .. n - 1

\* C1: a sampler constructed with ratio = r only, r in (0, 1], returns exactly
\* floor(N * r) indices from sample(pos, batch), each in [0, N), whatever the
\* batch partition of the N points is.
C1_RatioSamplerReturnsFloor ==
    (Sampled /\ RatioOnly) =>
        /\ smp.outcome = "ok"
        /\ Len(smp.out) = Floor(Len(smp.pos), sampler.ratio.val)
        /\ InRange(smp.out, Len(smp.pos))

\* C2: a sampler constructed with num_to_sample = c only, 1 <= c <= N, returns
\* exactly c indices from sample(pos, batch), each in [0, N), FPSSampler included.
C2_CountSamplerReturnsCount ==
    (Sampled /\ CountOnly /\ sampler.num \in 1 .. Len(smp.pos)) =>
        /\ smp.outcome = "ok"
        /\ Len(smp.out) = sampler.num
        /\ InRange(smp.out, Len(smp.pos))

\* C7: constructing a sampler with both ratio and num_to_sample set fails with
\* the configuration error in the constructor: no sampler object exists
\* afterwards, so no sample call runs on it and none raises the error later.
C7_BothSetFailsAtConstruction ==
    (ctor.cls # "none" /\ ctor.ratio.some /\ ctor.num_to_sample.some) =>
        /\ ctor.raised = "ValueError"
        /\ sampler = NoSampler
        /\ smp.outcome = "none"

C7_Witness ==
    /\ ctor.cls = "RandomSampler"
    /\ ctor.ratio.some /\ ctor.num_to_sample.some
    /\ ctor.raised = "ValueError"

----------------------------------------------------------------------------
(* Claims about DilatedKNNNeighbourFinder (SpecKnn) *)

Searched == nbr.outcome # "none"
Candidates(j) == Cardinality(Seg(nbr.batch_x, nbr.batch_y[j]))
Wanted == finder.k * finder.dilation
Shortage == \E j \in 1 .. Len(nbr.y) : Candidates(j) < Wanted
InnerPairs == KNNNeighbourFinder_find(Wanted, nbr.x, nbr.y, nbr.batch_x, nbr.batch_y)
\* the query that entry s of the result belongs to: k entries per query
QueryOfSlot(s) == (s - 1) \div finder.k

\* C3: when every query has at least k * dilation same-batch candidates,
\* find_neighbours returns k pairs per query, M * k in all, and each is one of
\* the pairs the inner KNN search produced for that query.
C3_DilatedPairsComeFromOwnBlock ==
    (Searched /\ ~Shortage) =>
        LET inner == InnerPairs
        IN  /\ nbr.outcome = "ok"
            /\ Len(nbr.pairs) = Len(nbr.y) * finder.k
            /\ \A s \in DOMAIN nbr.pairs :
                  /\ nbr.pairs[s].row = QueryOfSlot(s)
                  /\ \E p \in DOMAIN inner : inner[p] = nbr.pairs[s]

C3_Witness ==
    /\ Searched /\ ~Shortage
    /\ finder.dilation >= 2 /\ Len(nbr.y) >= 2
    /\ nbr.outcome = "ok"
    /\ \E s \in DOMAIN nbr.pairs : nbr.pairs[s].row = 1

\* C4: when some query has fewer than k * dilation same-batch candidates,
\* find_neighbours raises NeighbourShortageError or pads with a no-neighbour
\* sentinel: it never returns, for query j, a pair the inner search produced
\* for another query, and never reads outside the candidate arrays.
C4_ShortageIsGuarded ==
    (Searched /\ Shortage) =>
        \/ nbr.outcome = "NeighbourShortageError"
        \/ /\ nbr.outcome = "ok"
           /\ \A s \in DOMAIN nbr.pairs :
                 nbr.pairs[s].col = -1 \/ nbr.pairs[s].row = QueryOfSlot(s)

----------------------------------------------------------------------------
(* Claims about MultiscaleRadiusNeighbourFinder (SpecMs) *)

MsSearchedFor == mscall.outcome # "none"
\* the constructor argument at scale i: a scalar stands for every scale
ArgAt(arg, i) == IF arg.is_list THEN arg.val[i + 1] ELSE arg.val[1]
StandaloneRadiusFinder(i) ==
    RadiusNeighbourFinder_init(ArgAt(msctor.radius, i), ArgAt(msctor.max_num_neighbors, i))

\* C5: find_neighbours fails with the out-of-range error, without searching,
\* when scale_idx >= num_scales; for scale_idx in [0, num_scales) it returns
\* what RadiusNeighbourFinder(radius[scale_idx], max_num_neighbors[scale_idx])
\* returns on the same inputs.
C5_MultiscaleDispatchesToScale ==
    MsSearchedFor =>
        /\ mscall.scale_idx >= num_scales(ms) =>
              mscall.outcome = "ValueError" /\ ~mscall.searched
        /\ mscall.scale_idx \in 0 .. num_scales(ms) - 1 =>
              /\ mscall.outcome = "ok"
              /\ mscall.pairs =
                    RadiusNeighbourFinder_find(StandaloneRadiusFinder(mscall.scale_idx),
                        mscall.x, mscall.y, mscall.batch_x, mscall.batch_y)

\* a search at the second of two scales whose result differs from the first scale's
C5_Witness ==
    /\ MsSearchedFor
    /\ num_scales(ms) = 2 /\ mscall.scale_idx = 1
    /\ mscall.outcome = "ok"
    /\ mscall.pairs # RadiusNeighbourFinder_find(StandaloneRadiusFinder(0),
                          mscall.x, mscall.y, mscall.batch_x, mscall.batch_y)

BothLists == msctor.radius.is_list /\ msctor.max_num_neighbors.is_list
ExpectedScales ==
    IF msctor.radius.is_list THEN Len(msctor.radius.val)
    ELSE IF msctor.max_num_neighbors.is_list THEN Len(msctor.max_num_neighbors.val)
    ELSE 1

\* C6: construction fails with the configuration error exactly when both
\* arguments are lists of unequal length; otherwise the stored radius list and
\* max-neighbours list both have length num_scales: the length of the list
\* argument when there is one, and 1 when both arguments are scalars.
C6_MultiscaleConstruction ==
    msctor.called =>
        /\ msctor.raised = "ValueError" <=>
              (BothLists /\ Len(msctor.radius.val) # Len(msctor.max_num_neighbors.val))
        /\ msctor.raised # "ValueError" =>
              /\ msctor.raised = "none"
              /\ ms.cls = "MultiscaleRadiusNeighbourFinder"
              /\ Len(ms._radius) = num_scales(ms)
              /\ Len(ms._max_num_neighbors) = num_scales(ms)
              /\ num_scales(ms) = ExpectedScales
              /\ \A i \in 0 .. num_scales(ms) - 1 :
                    /\ PyItem(ms._radius, i) = ArgAt(msctor.radius, i)
                    /\ PyItem(ms._max_num_neighbors, i) = ArgAt(msctor.max_num_neighbors, i)

\* a scalar repeated once per entry of a two-entry list
C6_Witness ==
    /\ msctor.called /\ msctor.raised = "none"
    /\ msctor.radius.is_list /\ ~msctor.max_num_neighbors.is_list
    /\ num_scales(ms) = 2
    /\ ms._max_num_neighbors = <<DefaultMaxNumNeighbors, DefaultMaxNumNeighbors>>

\* C9: find_neighbours searches only when scale_idx is in [0, num_scales): any
\* other scale_idx, negative ones included, raises the out-of-range error.
C9_NoSearchOutsideScaleRange ==
    (MsSearchedFor /\ mscall.scale_idx \notin 0 .. num_scales(ms) - 1) =>
        /\ ~mscall.searched
        /\ mscall.outcome \in {"ValueError", "IndexError"}

----------------------------------------------------------------------------
(* Claims about seeded replay (SpecSeeded) *)

\* C8: two RandomSampler.sample calls with identical inputs and the same seed
\* return identical index sequences, whatever sampler or
\* DilatedKNNNeighbourFinder calls, by the same or another caller, come
\* between setting the seed and sampling.
C8_SeededSamplesRepeat ==
    \A i, j \in DOMAIN replay :
        (replay[i].seed = replay[j].seed /\ replay[i].pos = replay[j].pos
            /\ replay[i].batch = replay[j].batch)
        => replay[i].out = replay[j].out

----------------------------------------------------------------------------
(* Claims about BaseDataset's transforms (SpecDataset) *)

OptList(t) == IF t.some THEN t.val ELSE <<>>

\* C10: after any sequence of set_transform and add_transform calls, every
\* object's inference transform is exactly its pre_transform transforms
\* followed by its test_transform transforms, and a direct add_transform call
\* with no 'out' returns exactly the transforms it was given: nothing added by
\* an earlier call shows up, and a later call changes no earlier result.
C10_InferenceIsPreThenTest ==
    /\ \A obj \in DatasetObjects :
          datasets[obj].is_set =>
              InferenceTransforms(obj) =
                  OptList(datasets[obj].pre_transform) \o OptList(datasets[obj].test_transform)
    /\ last_add.called => last_add.returned = last_add.added

----------------------------------------------------------------------------
(* Claims about BaseDataset's stage names (SpecStages) *)

OkReads == {i \in 1 .. Len(stage_reads) : stage_reads[i].outcome = "ok"}
CountOf(name, list) == Cardinality({i \in 1 .. Len(list) : list[i] = name})

\* C11: reading available_stage_names, directly or through
\* resolve_saving_stage, leaves the stored test dataset names unchanged: after
\* any number of reads test_datatset_names still holds exactly the names
\* create_dataloaders computed, every read returned the same list, and "val"
\* appears at most once in it.
C11_ReadsLeaveTestNamesUnchanged ==
    stage.has_names =>
        /\ stage.names = TestDatasetNames(stage)
        /\ \A i \in OkReads, j \in OkReads :
              stage_reads[i].returned = stage_reads[j].returned
        /\ \A i \in OkReads : CountOf("val", stage_reads[i].returned) <= 1

====
